---- MODULE Spec2Model ----
(***************************************************************************)
(* inquirer-path: the path prompt (PathPrompt), its autocomplete engine    *)
(* (ShellPathAutocomplete) and the path references (PathReference).         *)
(*                                                                         *)
(* A JavaScript string is a sequence of one-character strings, so that     *)
(* startsWith, substr, lastIndexOf and the common-prefix loop are computed *)
(* as the code computes them.  JavaScript indices are 0-based in the code  *)
(* and 1-based here; every operator says which one it takes.               *)
(***************************************************************************)
EXTENDS Naturals, Integers, Sequences, FiniteSets, Bags, TLC

\* ------------------------------------------------------------------ bounds
\* Longest line the user types by hand (completion may make it longer).
MaxLen == 1
\* Submissions that may be in the pipeline or already answered.
MaxSubmissions == 2
\* Longest input resolve is called with
MaxInput == 3
\* Longest line the user types by hand when only keys are pressed
MaxTyped == 2
\* Most keys pressed before the user starts to press return only
MaxKeys == 4

\* ------------------------------------------------------- JavaScript values
\* null and undefined, as records so that they compare with every record.
Null == [null |-> TRUE]
Undefined == [undefined |-> TRUE]
\* What a validator answers: the boolean true, or a message.
JsTrue == "true"
ValidatorMessage == "does not exist"
ValidatorResults == {JsTrue, ValidatorMessage}

\* path.sep on a POSIX platform
SEP == "/"
\* The characters the user types by hand
TypedChars == {SEP, "b"}

\* UTF-16 code units of the characters, the order of Array.prototype.sort()
\* and (for these characters) of String.prototype.localeCompare.
CharCode(c) == IF c = SEP THEN 47 ELSE IF c = "a" THEN 97 ELSE 98


\* ------------------------------------------------------ String primitives
startsWith(s, c) == Len(s) > 0 /\ s[1] = c
endsWith(s, c) == Len(s) > 0 /\ s[Len(s)] = c

\* s.startsWith(prefix) for a string prefix
startsWithStr(s, prefix) ==
    /\ Len(prefix) <= Len(s)
    /\ \A i \in 1..Len(prefix) : s[i] = prefix[i]

\* s.lastIndexOf(path.sep): the 0-based index, -1 when there is none
lastIndexOf(s) ==
    LET hits == {i \in 1..Len(s) : s[i] = SEP}
    IN  IF hits = {} THEN -1 ELSE (CHOOSE i \in hits : \A j \in hits : j <= i) - 1

\* s.substr(from) and s.substr(0, n), from and n 0-based as in the code
substrFrom(s, from) == SubSeq(s, from + 1, Len(s))
substrTo(s, n) == SubSeq(s, 1, n)

\* Lexicographic comparison by code unit: -1, 0 or 1
RECURSIVE compareStr(_, _)
compareStr(s, t) ==
    IF s = <<>> /\ t = <<>> THEN 0
    ELSE IF s = <<>> THEN -1
    ELSE IF t = <<>> THEN 1
    ELSE IF CharCode(s[1]) < CharCode(t[1]) THEN -1
    ELSE IF CharCode(s[1]) > CharCode(t[1]) THEN 1
    ELSE compareStr(Tail(s), Tail(t))

\* parts.join(path.sep) for an array of strings
RECURSIVE joinSep(_)
joinSep(parts) ==
    IF parts = <<>> THEN <<>>
    ELSE IF Len(parts) = 1 THEN parts[1]
    ELSE parts[1] \o <<SEP>> \o joinSep(Tail(parts))

\* The non-empty segments between separators
RECURSIVE Segments(_)
Segments(s) ==
    IF s = <<>> THEN <<>>
    ELSE LET seps == {i \in 1..Len(s) : s[i] = SEP}
             cut == IF seps = {} THEN Len(s) + 1
                    ELSE CHOOSE i \in seps : \A j \in seps : i <= j
             head == SubSeq(s, 1, cut - 1)
             rest == SubSeq(s, cut + 1, Len(s))
         IN  IF head = <<>> THEN Segments(rest) ELSE <<head>> \o Segments(rest)

\* ------------------------------------------------- Node's path module (POSIX)
\* Trailing separators removed
RECURSIVE stripTrailingSeps(_)
stripTrailingSeps(s) ==
    IF endsWith(s, SEP) THEN stripTrailingSeps(SubSeq(s, 1, Len(s) - 1)) ELSE s

\* path.basename(input): the last segment, trailing separators ignored
nodeBasename(input) ==
    LET t == stripTrailingSeps(input)
    IN  substrFrom(t, lastIndexOf(t) + 1)

\* path.dirname(input): everything before the separator that precedes the
\* last segment; '/' for a child of the root, '.' when there is no directory
nodeDirname(input) ==
    LET t == stripTrailingSeps(input)
        end == lastIndexOf(t)
    IN  IF input = <<>> THEN <<".">>
        ELSE IF t = <<>> THEN <<SEP>>
        ELSE IF end = -1 THEN <<".">>
        ELSE IF end = 0 THEN <<SEP>>
        ELSE IF startsWith(t, SEP) /\ end = 1 THEN <<SEP, SEP>>
        ELSE substrTo(t, end)

\* path.resolve(input) for an absolute input without '.' and '..' segments:
\* separators collapsed, no trailing separator, '/' for the root
nodeResolve(input) == <<SEP>> \o joinSep(Segments(input))

\* ---------------------------------------------------- PathReference.js
\* join(...parts)
join(parts) ==
    IF Len(parts) = 0 THEN <<>>
    ELSE
      LET head == IF startsWith(parts[1], SEP) THEN <<SEP>> ELSE <<>>
          tail == IF endsWith(parts[Len(parts)], SEP) THEN <<SEP>> ELSE <<>>
          sliced == [i \in 1..Len(parts) |->
                       SubSeq(parts[i],
                              IF startsWith(parts[i], SEP) THEN 2 ELSE 1,
                              IF endsWith(parts[i], SEP) THEN Len(parts[i]) - 1
                                                         ELSE Len(parts[i]))]
          center == joinSep(SelectSeq(sliced, LAMBDA part : part # <<>>))
      IN  IF Len(center) > 0 \/ Len(head) = 0 \/ Len(tail) = 0
          THEN head \o center \o tail
          ELSE head

\* A reduce that keeps the parts before a part that starts with the separator
resolveReduceKeepsAll(fParts, parts) == fParts \o parts

\* The reduce of resolve: a part that starts with the separator replaces
\* everything before it
RECURSIVE resolveReduce(_, _)
resolveReduce(fParts, parts) ==
    IF parts = <<>> THEN fParts
    ELSE IF startsWith(parts[1], SEP) THEN resolveReduce(<<parts[1]>>, Tail(parts))
    ELSE resolveReduce(Append(fParts, parts[1]), Tail(parts))

\* resolve(...parts)
resolve(parts) ==
    join(resolveReduce(<<>>, SelectSeq(parts, LAMBDA part : part # <<>>)))

\* basename(input)
basename(input) ==
    IF endsWith(input, SEP) THEN nodeBasename(input)
    ELSE substrFrom(input, lastIndexOf(input) + 1)

\* dirname(input)
dirname(input) ==
    IF endsWith(input, SEP)
    THEN LET dir == nodeDirname(input)
         IN  IF endsWith(dir, SEP) THEN dir ELSE dir \o <<SEP>>
    ELSE LET separatorIndex == lastIndexOf(input)
         IN  IF separatorIndex = -1 THEN <<>>
             ELSE IF separatorIndex = 0 THEN <<SEP>>
             ELSE substrTo(input, separatorIndex)

\* appendPathSeparator(input)
appendPathSeparator(input) == IF endsWith(input, SEP) THEN input ELSE input \o <<SEP>>

DIRECTORY == "directory"
FILE == "file"

\* The fields the constructor of PathReference derives from this.path
PathReferenceOfPath(p) ==
    [path |-> p,
     type |-> IF endsWith(p, SEP) THEN DIRECTORY ELSE FILE,
     name |-> basename(p),
     parentDirectory |-> dirname(p)]

\* new PathReference(...pathParts)
PathReference(pathParts) == PathReferenceOfPath(join(pathParts))

\* PathReference.getDeepestDirectory
getDeepestDirectory(ref) ==
    IF ref.type = DIRECTORY THEN ref.path ELSE ref.parentDirectory

\* ------------------------------------------------------------ File system
\* The local file system the prompt completes over: for every directory
\* (named by its segments) what fs.readdirSync returns, in the order the
\* platform returns it, with the kind of every child.
\*   /      a/
\*   /a/    the listing fs: b (file)  ba/  where the prompt runs
\*   /a/x/  (empty) for every directory x of the listing
nA == <<"a">>
nB == <<"b">>
nBA == <<"b", "a">>
nAB == <<"a", "b">>

VARIABLES
    fs                        \* what fs.readdirSync returns for /a: the children
                              \* in the order of the platform, each with its kind

\* The listing of /a the prompt runs on
PromptListing == <<[name |-> nB, type |-> FILE], [name |-> nBA, type |-> DIRECTORY]>>

FsDirectories ==
    {<<>>, <<nA>>} \cup {<<nA, fs[i].name>> : i \in {j \in 1..Len(fs) : fs[j].type = DIRECTORY}}

FsChildren(dir) ==
    IF dir = <<>> THEN <<[name |-> nA, type |-> DIRECTORY]>>
    ELSE IF dir = <<nA>> THEN fs
    ELSE <<>>

\* isDirectory(fullPath): the path exists and stat says directory
isDirectory(fullPath) == Segments(fullPath) \in FsDirectories

\* fs.readdirSync(directory): the names of the children
readdirSync(directory) ==
    LET children == FsChildren(Segments(directory))
    IN  [i \in 1..Len(children) |-> children[i].name]

\* ----------------------------------------------- Array.prototype.sort
\* The comparator of findPotentialPaths.  Its result is a number when the two
\* children have the same type and a boolean otherwise, which sort converts
\* to 1 (true) or 0 (false).
compareChildren(child1, child2) ==
    IF child1.type = child2.type THEN compareStr(child1.name, child2.name)
    ELSE IF child1.type # DIRECTORY THEN 1 ELSE 0

\* The sort of the JavaScript engine is implementation-defined for a
\* comparator that is not consistent.  Two engines are modelled: V8 before
\* 7.0 (insertion sort for short arrays) and V8 from 7.0 (TimSort: one run
\* is counted, the rest is placed by binary insertion).
SortEngines == {"insertion", "timsort"}

\* Insertion sort: the element moves left while comparefn(tmp, element) > 0
RECURSIVE insertionPlace(_, _, _)
insertionPlace(a, element, j) ==
    IF j >= 1 /\ compareChildren(a[j], element) > 0
    THEN insertionPlace(a, element, j - 1)
    ELSE SubSeq(a, 1, j) \o <<element>> \o SubSeq(a, j + 1, Len(a))

RECURSIVE insertionSort(_, _)
insertionSort(sorted, rest) ==
    IF rest = <<>> THEN sorted
    ELSE insertionSort(insertionPlace(sorted, rest[1], Len(sorted)), Tail(rest))

Reverse(a) == [i \in 1..Len(a) |-> a[Len(a) + 1 - i]]

\* TimSort, CountAndMakeRun: the length of the run that starts the array
RECURSIVE runLength(_, _, _)
runLength(a, idx, isDescending) ==
    IF idx > Len(a) THEN idx - 1
    ELSE LET order == compareChildren(a[idx], a[idx - 1])
         IN  IF (isDescending /\ order >= 0) \/ (~isDescending /\ order < 0)
             THEN idx - 1
             ELSE runLength(a, idx + 1, isDescending)

\* TimSort, BinaryInsertionSort: where the pivot goes in a[1..Len(a)]
RECURSIVE binaryPlace(_, _, _, _)
binaryPlace(a, pivot, left, right) ==
    IF left < right
    THEN LET mid == left + ((right - left) \div 2)
         IN  IF compareChildren(pivot, a[mid + 1]) < 0
             THEN binaryPlace(a, pivot, left, mid)
             ELSE binaryPlace(a, pivot, mid + 1, right)
    ELSE SubSeq(a, 1, left) \o <<pivot>> \o SubSeq(a, left + 1, Len(a))

RECURSIVE binaryInsertionSort(_, _)
binaryInsertionSort(sorted, rest) ==
    IF rest = <<>> THEN sorted
    ELSE binaryInsertionSort(binaryPlace(sorted, rest[1], 0, Len(sorted)), Tail(rest))

\* TimSort once the first run a[1..n] is counted: a descending run is
\* reversed, the elements after it are inserted
timSortRun(a, isDescending, n) ==
    binaryInsertionSort(IF isDescending THEN Reverse(SubSeq(a, 1, n))
                                        ELSE SubSeq(a, 1, n),
                        SubSeq(a, n + 1, Len(a)))

timSortFrom(a, isDescending) == timSortRun(a, isDescending, runLength(a, 3, isDescending))

timSort(a) ==
    IF Len(a) < 2 THEN a
    ELSE timSortFrom(a, compareChildren(a[2], a[1]) < 0)

\* array.sort(compareChildren) on the given engine
sortChildren(a, engine) ==
    IF engine = "insertion" THEN insertionSort(<<>>, a) ELSE timSort(a)

\* ------------------------------------------------ ShellPathAutocomplete.js
\* The object is a record of its fields.  potentialPaths is Null or
\* [items |-> the array].  commonIsInput says that commonPotentialPath and
\* inputPathReference are the same object (the code compares them with !==).

\* hasSelectedPath()
hasSelectedPath(sh) == sh.selectedPotentialPathIndex # -1

\* getPotentialPaths(), the array
getPotentialPaths(sh) == sh.potentialPaths.items

\* getSelectedPath(): null, the selected reference, or undefined when the
\* index is outside the array
getSelectedPath(sh) ==
    IF ~hasSelectedPath(sh) THEN Null
    ELSE IF sh.selectedPotentialPathIndex + 1 \in 1..Len(getPotentialPaths(sh))
    THEN getPotentialPaths(sh)[sh.selectedPotentialPathIndex + 1]
    ELSE Undefined

\* hasCommonPotentialPath()
hasCommonPotentialPath(sh) == ~sh.commonIsInput

\* A format that drops what the user typed before the name
formatNameOnly(sh, pathReference) ==
    IF pathReference.type = DIRECTORY THEN pathReference.name \o <<SEP>>
    ELSE pathReference.name

\* format(pathReference)
format(sh, pathReference) ==
    LET formattedPath == substrTo(sh.inputPath, lastIndexOf(sh.inputPath) + 1)
                           \o pathReference.name
    IN  IF pathReference.type = DIRECTORY THEN formattedPath \o <<SEP>> ELSE formattedPath

\* getInputPath(includeSelection) throws a TypeError when the selected path
\* is undefined (format reads its name)
getInputPathThrows(sh, includeSelection) ==
    includeSelection /\ hasSelectedPath(sh) /\ getSelectedPath(sh) = Undefined

\* getInputPath(includeSelection)
getInputPath(sh, includeSelection) ==
    IF ~includeSelection \/ ~hasSelectedPath(sh) THEN sh.inputPath
    ELSE format(sh, getSelectedPath(sh))

\* A setInputPath that leaves the selected index where it is
setInputPathStringKeepsSelection(sh, inputPath) ==
    IF sh.inputPathReference # Null /\ inputPath = sh.inputPath THEN sh
    ELSE [sh EXCEPT !.fresh = FALSE,
                    !.inputPath = inputPath,
                    !.inputPathReference =
                        PathReference(<<resolve(<<sh.cwd.path, inputPath>>)>>),
                    !.commonIsInput = FALSE]

\* A setInputPath that does not compare the input with the current one
setInputPathStringAlways(sh, inputPath) ==
    [sh EXCEPT !.fresh = FALSE,
               !.inputPath = inputPath,
               !.inputPathReference =
                   PathReference(<<resolve(<<sh.cwd.path, inputPath>>)>>),
               !.commonIsInput = FALSE,
               !.selectedPotentialPathIndex = -1]

\* setInputPath(input) for a string input
setInputPathString(sh, inputPath) ==
    IF sh.inputPathReference # Null /\ inputPath = sh.inputPath THEN sh
    ELSE [sh EXCEPT !.fresh = FALSE,
                    !.inputPath = inputPath,
                    !.inputPathReference =
                        PathReference(<<resolve(<<sh.cwd.path, inputPath>>)>>),
                    !.commonIsInput = FALSE,
                    !.selectedPotentialPathIndex = -1]

\* setInputPath(input) for a PathReference input
setInputPath(sh, input) == setInputPathString(sh, format(sh, input))

\* findPotentialPaths(), the map to PathReference instances
childReference(childPath) ==
    IF isDirectory(childPath)
    THEN PathReference(<<childPath \o <<SEP>>>>)
    ELSE PathReference(<<childPath>>)

childReferences(directory, names) ==
    [i \in 1..Len(names) |-> childReference(join(<<directory, names[i]>>))]

\* findPotentialPaths(), for the deepest directory of the input and the
\* prefix to filter on
findPotentialPathsIn(sh, directory, prefix, engine) ==
    IF ~isDirectory(directory) THEN <<>>
    ELSE sortChildren(
             SelectSeq(childReferences(directory,
                                       SelectSeq(readdirSync(directory),
                                                 LAMBDA child : startsWithStr(child, prefix))),
                       LAMBDA child : child.type = DIRECTORY \/ ~sh.directoryOnly),
             engine)

\* findPotentialPaths()
findPotentialPaths(sh, engine) ==
    findPotentialPathsIn(sh,
                         getDeepestDirectory(sh.inputPathReference),
                         IF sh.inputPathReference.type = DIRECTORY THEN <<>>
                         ELSE sh.inputPathReference.name,
                         engine)

\* The while loop of findCommonPotentialPath: the length of the common
\* prefix of a1 and a2
RECURSIVE commonLength(_, _, _)
commonLength(a1, a2, i) ==
    IF i < Len(a1) /\ i < Len(a2) /\ a1[i + 1] = a2[i + 1]
    THEN commonLength(a1, a2, i + 1)
    ELSE i

\* findCommonPotentialPath(): the reference and whether it is the object
\* inputPathReference
commonPrefixReference(reference, a1, i) ==
    IF i = 0 \/ substrTo(a1, i) = reference.name
    THEN [ref |-> reference, isInput |-> TRUE]
    ELSE [ref |-> PathReference(<<getDeepestDirectory(reference), substrTo(a1, i)>>),
          isInput |-> FALSE]

\* A findCommonPotentialPath that takes the whole first name for the prefix
commonOfExtremesWholeFirstName(reference, a1, a2) ==
    commonPrefixReference(reference, a1, Len(a1))

\* a1 and a2 are the first and the last of the sorted names
commonOfExtremes(reference, a1, a2) ==
    commonPrefixReference(reference, a1, commonLength(a1, a2, 0))

commonOfNames(reference, names) ==
    commonOfExtremes(reference,
                     CHOOSE n \in names : \A m \in names : compareStr(n, m) <= 0,
                     CHOOSE n \in names : \A m \in names : compareStr(n, m) >= 0)

\* A findCommonPotentialPath that answers an empty list with a new reference
\* to the path of the input, not with the input reference itself
findCommonPotentialPathNewReference(sh) ==
    IF Len(getPotentialPaths(sh)) = 0
    THEN [ref |-> PathReference(<<sh.inputPathReference.path>>), isInput |-> FALSE]
    ELSE IF Len(getPotentialPaths(sh)) = 1
    THEN [ref |-> getPotentialPaths(sh)[1], isInput |-> FALSE]
    ELSE commonOfNames(sh.inputPathReference,
                       {getPotentialPaths(sh)[k].name :
                            k \in 1..Len(getPotentialPaths(sh))})

findCommonPotentialPath(sh) ==
    IF Len(getPotentialPaths(sh)) = 0
    THEN [ref |-> sh.inputPathReference, isInput |-> TRUE]
    ELSE IF Len(getPotentialPaths(sh)) = 1
    THEN [ref |-> getPotentialPaths(sh)[1], isInput |-> FALSE]
    ELSE commonOfNames(sh.inputPathReference,
                       {getPotentialPaths(sh)[k].name :
                            k \in 1..Len(getPotentialPaths(sh))})

\* refresh(): this.fresh and this.potentialPaths are assigned
refreshPotentialPaths(sh, potentialPaths) ==
    [sh EXCEPT !.fresh = TRUE, !.potentialPaths = [items |-> potentialPaths]]

\* refresh(): this.commonPotentialPath is assigned
refreshCommonPotentialPath(sh, common) ==
    [sh EXCEPT !.commonPotentialPath = common.ref,
               !.commonIsInput = common.isInput]

refreshCommon(listed) ==
    refreshCommonPotentialPath(listed, findCommonPotentialPath(listed))

\* refresh()
refresh(sh, engine) ==
    IF sh.fresh THEN sh
    ELSE refreshCommon(refreshPotentialPaths(sh, findPotentialPaths(sh, engine)))

\* A refresh that lists whether the shell is fresh or not
refreshListsAlways(sh) == isDirectory(getDeepestDirectory(sh.inputPathReference))

\* refresh() calls fs.readdirSync: the shell is not fresh and findPotentialPaths
\* finds the directory of the input
refreshLists(sh) ==
    ~sh.fresh /\ isDirectory(getDeepestDirectory(sh.inputPathReference))

\* position % length of JavaScript: the sign of the result is the sign of
\* position
jsRemainder(position, length) ==
    IF position >= 0 THEN position % length ELSE 0 - ((0 - position) % length)

\* selectNextPotentialPath(forward)
selectNextPotentialPath(sh, forward) ==
    IF Len(getPotentialPaths(sh)) = 0
    THEN [sh EXCEPT !.selectedPotentialPathIndex = -1]
    ELSE LET position == sh.selectedPotentialPathIndex + (IF forward THEN 1 ELSE -1)
             boundedPosition == jsRemainder(position, Len(getPotentialPaths(sh)))
         IN  [sh EXCEPT !.selectedPotentialPathIndex =
                 IF position >= 0 THEN boundedPosition
                 ELSE Len(getPotentialPaths(sh)) + boundedPosition]

\* resetSelectPotentialPath()
resetSelectPotentialPath(sh) == [sh EXCEPT !.selectedPotentialPathIndex = -1]

\* new ShellPathAutocomplete(cwd, directoryOnly), for a cwd that is a directory
ShellPathAutocomplete(cwd, directoryOnly) ==
    setInputPathString(
        [cwd |-> PathReference(<<appendPathSeparator(cwd)>>),
         directoryOnly |-> directoryOnly,
         inputPath |-> <<>>,
         inputPathReference |-> Null,
         potentialPaths |-> Null,
         selectedPotentialPathIndex |-> -1,
         commonPotentialPath |-> Null,
         commonIsInput |-> FALSE,
         fresh |-> FALSE],
        <<>>)

\* ------------------------------------------------------------ PathPrompt.js
TAB_KEY == "tab"
ENTER_KEY == "return"

\* The SIGINT listeners the host had on the readline interface before the
\* prompt was constructed, and the answers hash the host passes to a prompt.
HostSIGINTListeners == <<"onForceClose", "hostListener">>
HostAnswers == [hash |-> "answers of the earlier questions"]
\* The working directories and the externally supplied filter.
WorkingDirectories == {<<SEP, "a">>}
filterFn(value) == <<"~">> \o value

VARIABLES
    opt,                      \* this.opt: multi, directoryOnly, cwd
    engine,                   \* the sort of the JavaScript engine that runs the prompt
    answers,                  \* this.answers, set by the base prompt
    answer,                   \* this.answer: Null, [str |-> s] or [items |-> array]
    finished,                 \* this.finished
    shell,                    \* this.shell
    state,                    \* this.state
    originalSIGINTListeners,  \* this.originalSIGINTListeners
    rl,                       \* this.rl: line, and the SIGINT listeners attached to it
    subscribed,               \* which subscriptions to the validation stream are
                              \* live (takeWhile(!finished) on the SIGINT and
                              \* keypress streams only ever stops a handler that
                              \* finished stops as well)
    validations,              \* validator invocations that have not settled (bag of values)
    filters,                  \* filter invocations that have not settled (bag of values)
    doneCalls,                \* the answers this.done was called with, in order
    crashed,                  \* a handler threw: the process is gone
    log,                      \* history: the submissions the validator was called
                              \* for and has not rejected, in the order they were
                              \* submitted; passed is 0 until validation passes,
                              \* then the rank of the submission among those
                              \* that passed
    call,                     \* the last call made on the shell or on a function
                              \* of PathReference.js when it is driven on its own
    effects                   \* the last event and what its handlers did: the
                              \* calls of this.screen, whether rl.line was set,
                              \* the validator calls and their arguments, the
                              \* validator results that arrived, the SIGINT
                              \* listeners of the host called, the calls of
                              \* fs.readdirSync

vars == <<fs, opt, engine, answers, answer, finished, shell, state,
          originalSIGINTListeners, rl, subscribed, validations,
          filters, doneCalls, crashed, log, call, effects>>

\* The prompt and its collaborators as one record, so that a handler is an
\* operator from the record before it runs to the record after it.
This ==
    [opt |-> opt, engine |-> engine, answers |-> answers, answer |-> answer,
     finished |-> finished, shell |-> shell, state |-> state,
     originalSIGINTListeners |-> originalSIGINTListeners, rl |-> rl,
     subscribed |-> subscribed, validations |-> validations,
     filters |-> filters, doneCalls |-> doneCalls, crashed |-> crashed,
     log |-> log, effects |-> effects]

Becomes(w) ==
    /\ opt' = w.opt
    /\ engine' = w.engine
    /\ answers' = w.answers
    /\ answer' = w.answer
    /\ finished' = w.finished
    /\ shell' = w.shell
    /\ state' = w.state
    /\ originalSIGINTListeners' = w.originalSIGINTListeners
    /\ rl' = w.rl
    /\ subscribed' = w.subscribed
    /\ validations' = w.validations
    /\ filters' = w.filters
    /\ doneCalls' = w.doneCalls
    /\ crashed' = w.crashed
    /\ log' = w.log
    /\ effects' = w.effects
    /\ UNCHANGED <<fs, call>>

\* No call: the prompt drives the shell
NoCall == [name |-> "none"]

\* Nothing done yet by the handler that starts on an event
NoEffects ==
    [event |-> "_run", screen |-> <<>>, lineSet |-> FALSE, validate |-> 0,
     validateArgs |-> <<>>, settled |-> <<>>, sigint |-> <<>>, readdir |-> 0]
Begin(w, event) == [w EXCEPT !.effects = [NoEffects EXCEPT !.event = event]]

\* A final answer is rendered when the argument is truthy
isFinal(finalAnswer) == finalAnswer # Undefined /\ finalAnswer.str # <<>>

\* render(finalAnswer): one call of this.screen.render, with the final answer
\* or with the formatted input and the candidate list.  What the screen
\* shows is left to the host; the call and its kind are recorded
\* ([render |-> kind], [error |-> message], [done |-> TRUE]).
render(w, finalAnswer) ==
    [w EXCEPT !.effects.screen =
        Append(@, [render |-> IF isFinal(finalAnswer) THEN "final answer" ELSE "prompt"])]

\* renderError(error): this.screen.render with the error as the bottom
renderError(w, error) ==
    [w EXCEPT !.effects.screen = Append(@, [error |-> error])]

\* onFinish()
onFinish(w) ==
    [w EXCEPT !.finished = TRUE,
              !.rl.sigint = @ \o w.originalSIGINTListeners,
              !.effects.screen = Append(@, [done |-> TRUE]),
              !.doneCalls = Append(@, w.answer)]

\* onError(state); resetCursor only moves the cursor, which is not modelled
onError(w, st) ==
    renderError([w EXCEPT !.rl.line = getInputPath(w.shell, TRUE),
                          !.effects.lineSet = TRUE],
                st.isValid)

\* The callback onSuccess gives to this.filter, called with the filtered value
onSuccessFiltered(w, filteredValue) ==
    LET rendered == render(w, [str |-> filteredValue])
    IN  IF w.opt.multi
        THEN render([rendered EXCEPT
                        !.shell = resetSelectPotentialPath(
                                      setInputPathString(rendered.shell, <<>>)),
                        !.state = [selectionActive |-> FALSE],
                        !.answer = [items |-> Append(rendered.answer.items, filteredValue)]],
                    Undefined)
        ELSE onFinish([rendered EXCEPT !.answer = [str |-> filteredValue]])

\* onSuccess(state): this.filter runs opt.filter, which answers at once
\* (filterSync) or later
onSuccess(w, st, filterSync) ==
    IF filterSync THEN onSuccessFiltered(w, filterFn(st.value))
    ELSE [w EXCEPT !.filters = @ (+) SetToBag({st.value})]

\* The submissions of a log whose validation has passed
Passed(l) == {k \in 1..Len(l) : l[k].passed # 0}

\* One element of the shared validation stream, for submission k of the
\* log, reaches its three subscribers in the order they subscribed:
\* success.forEach, then the source of error (takeUntil subscribes its source
\* first), then the copy of success that error.takeUntil(success) subscribes
\* to.
validationNext(w0, k, st, filterSync) ==
    LET valid == st.isValid = JsTrue
        w == [w0 EXCEPT !.effects.settled = Append(@, st.isValid),
                        !.log = IF valid
                                THEN [@ EXCEPT ![k].passed = 1 + Cardinality(Passed(w0.log))]
                                ELSE SubSeq(@, 1, k - 1) \o SubSeq(@, k + 1, Len(@))]
        \* success: filter, takeWhile(!finished), forEach(onSuccess)
        afterSuccess ==
            IF w.subscribed.success /\ valid
            THEN IF ~w.finished THEN onSuccess(w, st, filterSync)
                 ELSE [w EXCEPT !.subscribed.success = FALSE]
            ELSE w
        \* error: filter, forEach(onError)
        afterError ==
            IF w.subscribed.error /\ ~valid THEN onError(afterSuccess, st)
            ELSE afterSuccess
        \* takeUntil(success): an element of success completes error; when
        \* takeWhile completes success instead, error stays subscribed
    IN  IF w.subscribed.errorUntil /\ valid
        THEN IF ~afterError.finished
             THEN [afterError EXCEPT !.subscribed.error = FALSE,
                                     !.subscribed.errorUntil = FALSE]
             ELSE [afterError EXCEPT !.subscribed.errorUntil = FALSE]
        ELSE afterError

\* The 'line' listener of the submit stream is attached while the shared
\* validation stream has a subscriber
lineSubscribed(w) ==
    w.subscribed.success \/ w.subscribed.error \/ w.subscribed.errorUntil

\* A 'line' event on a submit stream that lacks
\* .filter(() => !this.shell.hasSelectedPath())
lineEventUnfiltered(w0, result, filterSync) ==
    LET w == [Begin(w0, "line") EXCEPT !.rl.line = <<>>]
        value == nodeResolve(w.shell.inputPathReference.path)
        called == [w EXCEPT !.effects.validate = @ + 1,
                            !.effects.validateArgs = Append(@, <<value, w.answers>>),
                            !.log = Append(@, [value |-> value, passed |-> 0])]
    IN  IF ~lineSubscribed(w) THEN w
        ELSE IF result = "async"
        THEN [called EXCEPT !.validations = @ (+) SetToBag({value})]
        ELSE validationNext(called, Len(called.log),
                            [isValid |-> result, value |-> value], filterSync)

\* A 'line' event.  readline empties its line before it emits the event.
\* result is what the validator answers at once, or "async" when it answers
\* later.
lineEvent(w0, result, filterSync) ==
    LET w == [Begin(w0, "line") EXCEPT !.rl.line = <<>>]
        value == nodeResolve(w.shell.inputPathReference.path)
        called == [w EXCEPT !.effects.validate = @ + 1,
                            !.effects.validateArgs = Append(@, <<value, w.answers>>),
                            !.log = Append(@, [value |-> value, passed |-> 0])]
    IN  IF ~lineSubscribed(w) \/ hasSelectedPath(w.shell) THEN w
        ELSE IF result = "async"
        THEN [called EXCEPT !.validations = @ (+) SetToBag({value})]
        ELSE validationNext(called, Len(called.log),
                            [isValid |-> result, value |-> value], filterSync)

\* The validator that was called for submission k of the log settles
validationSettles(w0, k, result, filterSync) ==
    LET value == w0.log[k].value
    IN  validationNext([Begin(w0, "validation") EXCEPT !.validations = @ (-) SetToBag({value})],
                       k, [isValid |-> result, value |-> value], filterSync)

\* A filter that answers later settles
filterSettles(w0, value) ==
    onSuccessFiltered([Begin(w0, "filter") EXCEPT !.filters = @ (-) SetToBag({value})],
                      filterFn(value))

\* A 'SIGINT' event whose handler closes the list of a selected path but
\* leaves out this.shell.resetSelectPotentialPath()
sigintEventKeepsSelection(w0) ==
    LET w == Begin(w0, "SIGINT")
        own == IF w.finished THEN w
               ELSE IF hasSelectedPath(w.shell)
               THEN [w EXCEPT !.state.selectionActive = FALSE]
               ELSE IF w.opt.multi THEN onFinish(w)
               ELSE [w EXCEPT !.effects.sigint = @ \o w.originalSIGINTListeners]
    IN  [own EXCEPT !.effects.sigint = @ \o w.rl.sigint]

\* A 'SIGINT' event whose handler passes the signal to the first of the
\* host's listeners only
sigintEventFirstListenerOnly(w0) ==
    LET w == Begin(w0, "SIGINT")
        own == IF w.finished THEN w
               ELSE IF hasSelectedPath(w.shell)
               THEN [w EXCEPT !.state.selectionActive = FALSE,
                              !.shell = resetSelectPotentialPath(w.shell)]
               ELSE IF w.opt.multi THEN onFinish(w)
               ELSE [w EXCEPT !.effects.sigint =
                                 @ \o SubSeq(w.originalSIGINTListeners, 1, 1)]
    IN  [own EXCEPT !.effects.sigint = @ \o w.rl.sigint]

\* A 'SIGINT' event on the readline interface: the listener of _run
\* (takeWhile(!finished), then the handler), then the listeners that were
\* attached when the event was emitted
sigintEvent(w0) ==
    LET w == Begin(w0, "SIGINT")
        own == IF w.finished THEN w
               ELSE IF hasSelectedPath(w.shell)
               THEN [w EXCEPT !.state.selectionActive = FALSE,
                              !.shell = resetSelectPotentialPath(w.shell)]
               ELSE IF w.opt.multi THEN onFinish(w)
               ELSE [w EXCEPT !.effects.sigint = @ \o w.originalSIGINTListeners]
    IN  [own EXCEPT !.effects.sigint = @ \o w.rl.sigint]

\* onKeypress(input).  input.line is this.rl.line as readline left it.
\* getInputPath(true) throws when the selected index is outside the list:
\* the handler stops at resetCursor and the exception is not caught.
\* case TAB_KEY, for the shell this.shell.refresh() leaves
onKeypressTab(w, sh, input) ==
    IF hasCommonPotentialPath(sh)
    THEN [w EXCEPT !.state.selectionActive = FALSE,
                   !.shell = setInputPath(sh, sh.commonPotentialPath)]
    ELSE IF ~w.state.selectionActive
    THEN [w EXCEPT !.state.selectionActive = TRUE, !.shell = sh]
    ELSE [w EXCEPT !.shell = selectNextPotentialPath(sh, ~input.shift)]

\* The switch of onKeypress
onKeypressSwitch(w, input) ==
    IF input.name = TAB_KEY
    THEN onKeypressTab([w EXCEPT !.effects.readdir =
                                     IF refreshLists(w.shell) THEN @ + 1 ELSE @],
                       refresh(w.shell, w.engine), input)
    ELSE IF input.name = ENTER_KEY
    THEN IF w.state.selectionActive
         THEN [w EXCEPT !.shell = setInputPath(w.shell, getSelectedPath(w.shell)),
                        !.state.selectionActive = FALSE]
         ELSE w
    ELSE [w EXCEPT !.state.selectionActive = FALSE,
                   !.shell = setInputPathString(w.shell, w.rl.line)]

\* What follows the switch: resetCursor (tab and enter) or the assignment of
\* this.rl.line (other keys) is the first to call getInputPath(true)
onKeypressRender(switched) ==
    IF getInputPathThrows(switched.shell, TRUE)
    THEN [switched EXCEPT !.crashed = TRUE]
    ELSE render([switched EXCEPT !.rl.line = getInputPath(switched.shell, TRUE),
                                 !.effects.lineSet = TRUE],
                Undefined)

onKeypress(w, input) == onKeypressRender(onKeypressSwitch(w, input))

\* A 'keypress' event: readline has handled the key (input.line), then the
\* keypress stream of _run: takeWhile(!finished), filter, forEach(onKeypress)
keypressEvent(w0, input) ==
    LET w == [Begin(w0, "keypress") EXCEPT !.rl.line = input.line]
    IN  IF w.finished THEN w
        ELSE IF input.name # ENTER_KEY \/ hasSelectedPath(w.shell)
        THEN onKeypress(w, input)
        ELSE w

\* The keys the user can press on a line: tab and shift-tab, return, a
\* character (appended to the line) or backspace while the line is one the
\* user types by hand, and a key that leaves the line alone
KeyInputsWithin(line, maxLen) ==
    {[name |-> TAB_KEY, shift |-> sh, line |-> line] : sh \in BOOLEAN}
    \cup {[name |-> ENTER_KEY, shift |-> FALSE, line |-> line]}
    \cup {[name |-> c, shift |-> FALSE, line |-> Append(line, c)] :
            c \in IF Len(line) < maxLen THEN TypedChars ELSE {}}
    \cup {[name |-> "backspace", shift |-> FALSE,
           line |-> SubSeq(line, 1, Len(line) - 1)] :
            x \in IF Len(line) \in 1..maxLen THEN {1} ELSE {}}
    \cup {[name |-> "escape", shift |-> FALSE, line |-> line]}

KeyInputs(line) == KeyInputsWithin(line, MaxLen)

\* Submissions in the pipeline or past it
Submissions == Len(log)

\* The submissions of the log whose validator has not settled
Validating == (1..Len(log)) \ Passed(log)

\* ---------------------------------------------------------------- actions
\* After new PathPrompt(...) and _run(cb)
Init ==
    /\ fs = PromptListing
    /\ call = NoCall
    /\ opt \in [multi : BOOLEAN, directoryOnly : {FALSE}, cwd : WorkingDirectories]
    /\ engine \in SortEngines
    /\ answers = HostAnswers
    /\ answer = IF opt.multi THEN [items |-> <<>>] ELSE Null
    /\ finished = FALSE
    /\ shell = ShellPathAutocomplete(opt.cwd, opt.directoryOnly)
    /\ state = [selectionActive |-> FALSE]
    /\ originalSIGINTListeners = HostSIGINTListeners
    /\ rl = [line |-> <<>>, sigint |-> <<>>]
    /\ subscribed = [success |-> TRUE, error |-> TRUE, errorUntil |-> TRUE]
    /\ validations = EmptyBag
    /\ filters = EmptyBag
    /\ doneCalls = <<>>
    /\ crashed = FALSE
    /\ log = <<>>
    /\ effects = NoEffects

\* The user submits the line and the validator answers in the same turn
LineSync ==
    /\ ~crashed
    /\ lineSubscribed(This)
    /\ \E result \in ValidatorResults, filterSync \in BOOLEAN :
         /\ result = JsTrue => Submissions < MaxSubmissions
         /\ Becomes(lineEvent(This, result, filterSync))

\* The user submits the line and the validator will answer later
LineAsync ==
    /\ ~crashed
    /\ lineSubscribed(This)
    /\ Submissions < MaxSubmissions
    /\ Becomes(lineEvent(This, "async", FALSE))

ValidationSettles ==
    /\ ~crashed
    /\ \E k \in Validating, result \in ValidatorResults, filterSync \in BOOLEAN :
         Becomes(validationSettles(This, k, result, filterSync))

FilterSettles ==
    /\ ~crashed
    /\ \E value \in BagToSet(filters) : Becomes(filterSettles(This, value))

Sigint ==
    /\ ~crashed
    /\ Becomes(sigintEvent(This))

Keypress ==
    /\ ~crashed
    /\ \E input \in KeyInputs(rl.line) : Becomes(keypressEvent(This, input))

Next ==
    \/ LineSync
    \/ LineAsync
    \/ ValidationSettles
    \/ FilterSettles
    \/ Sigint
    \/ Keypress

Spec == Init /\ [][Next]_vars

\* ------------------------------------------- the shell driven on its own
\* A ShellPathAutocomplete as any caller may drive it: constructed on /a
\* for some listing of /a, then setInputPath, refresh, selectNextPotentialPath
\* and resetSelectPotentialPath in any order.

\* Most children of /a
MaxChildren == 2

Names == {nA, nAB, nB, nBA}
Children == [name : Names, type : {DIRECTORY, FILE}]

\* The listings of /a: children with different names, in any order
Listings ==
    {l \in UNION {[1..n -> Children] : n \in 0..MaxChildren} :
        \A i, j \in 1..Len(l) : i # j => l[i].name # l[j].name}

\* The strings setInputPath is called with
ShellInputs == {<<>>, <<"a">>, <<"b">>, <<SEP>>, <<"a", SEP>>, <<SEP, SEP>>}

ShellInit ==
    /\ fs \in Listings
    /\ engine \in SortEngines
    /\ opt \in [multi : {FALSE}, directoryOnly : BOOLEAN, cwd : WorkingDirectories]
    /\ shell = ShellPathAutocomplete(opt.cwd, opt.directoryOnly)
    /\ call = [name |-> "constructor"]
    /\ answers = HostAnswers
    /\ answer = Null
    /\ finished = FALSE
    /\ state = [selectionActive |-> FALSE]
    /\ originalSIGINTListeners = HostSIGINTListeners
    /\ rl = [line |-> <<>>, sigint |-> <<>>]
    /\ subscribed = [success |-> TRUE, error |-> TRUE, errorUntil |-> TRUE]
    /\ validations = EmptyBag
    /\ filters = EmptyBag
    /\ doneCalls = <<>>
    /\ crashed = FALSE
    /\ log = <<>>
    /\ effects = NoEffects

\* A call that leaves the shell as sh
ShellBecomes(sh, c) ==
    /\ shell' = sh
    /\ call' = c
    /\ UNCHANGED <<fs, opt, engine, answers, answer, finished, state,
                   originalSIGINTListeners, rl, subscribed, validations,
                   filters, doneCalls, crashed, log, effects>>

\* setInputPath(input) with a string
ShellSetInputPath ==
    \E input \in ShellInputs :
        ShellBecomes(setInputPathString(shell, input),
                     [name |-> "setInputPath", input |-> input])

\* setInputPath(input) with one of the references the shell hands out; the
\* call is recorded with the string format(input) gives. The references are
\* those of the current input, as getPotentialPaths documents them
ShellSetInputPathReference ==
    /\ shell.fresh
    /\ shell.potentialPaths # Null
    /\ \E k \in 1..Len(getPotentialPaths(shell)) :
          ShellBecomes(setInputPath(shell, getPotentialPaths(shell)[k]),
                       [name |-> "setInputPath",
                        input |-> format(shell, getPotentialPaths(shell)[k]),
                        reference |-> getPotentialPaths(shell)[k]])

ShellRefresh == ShellBecomes(refresh(shell, engine), [name |-> "refresh"])

\* selectNextPotentialPath(forward); potentialPaths.length needs the list
ShellSelectNext ==
    /\ shell.potentialPaths # Null
    /\ \E forward \in BOOLEAN :
          ShellBecomes(selectNextPotentialPath(shell, forward),
                       [name |-> "selectNextPotentialPath", forward |-> forward])

ShellResetSelect ==
    ShellBecomes(resetSelectPotentialPath(shell), [name |-> "resetSelectPotentialPath"])

ShellNext ==
    \/ ShellSetInputPath
    \/ ShellSetInputPathReference
    \/ ShellRefresh
    \/ ShellSelectNext
    \/ ShellResetSelect

ShellSpec == ShellInit /\ [][ShellNext]_vars

\* --------------------------------------------- the prompt under key presses
\* The prompt on /a, for every listing of /a, when the user only presses
\* keys: lines of up to MaxTyped characters, tab, shift-tab and return.

KeysInit ==
    /\ fs \in Listings
    /\ call = NoCall
    /\ opt \in [multi : {FALSE}, directoryOnly : BOOLEAN, cwd : WorkingDirectories]
    /\ engine \in SortEngines
    /\ answers = HostAnswers
    /\ answer = Null
    /\ finished = FALSE
    /\ shell = ShellPathAutocomplete(opt.cwd, opt.directoryOnly)
    /\ state = [selectionActive |-> FALSE]
    /\ originalSIGINTListeners = HostSIGINTListeners
    /\ rl = [line |-> <<>>, sigint |-> <<>>]
    /\ subscribed = [success |-> TRUE, error |-> TRUE, errorUntil |-> TRUE]
    /\ validations = EmptyBag
    /\ filters = EmptyBag
    /\ doneCalls = <<>>
    /\ crashed = FALSE
    /\ log = <<>>
    /\ effects = NoEffects

KeysKeypress ==
    /\ ~crashed
    /\ \E input \in KeyInputsWithin(rl.line, MaxTyped) :
          Becomes(keypressEvent(This, input))

KeysNext == KeysKeypress

KeysSpec == KeysInit /\ [][KeysNext]_vars

\* ------------------------------------------- the user presses return only
\* Single mode, a validator that always answers true at once and a filter
\* that answers at once or later.  The prompt starts in any state that up to
\* MaxKeys key presses lead to, neither finished nor crashed; from there the
\* user presses return only: a 'keypress' event and a 'line' event per press.

\* The prompt after new PathPrompt(...) and _run(cb) on /a, in single mode
Constructed(e) ==
    [opt |-> [multi |-> FALSE, directoryOnly |-> FALSE, cwd |-> <<SEP, "a">>],
     engine |-> e,
     answers |-> HostAnswers,
     answer |-> Null,
     finished |-> FALSE,
     shell |-> ShellPathAutocomplete(<<SEP, "a">>, FALSE),
     state |-> [selectionActive |-> FALSE],
     originalSIGINTListeners |-> HostSIGINTListeners,
     rl |-> [line |-> <<>>, sigint |-> <<>>],
     subscribed |-> [success |-> TRUE, error |-> TRUE, errorUntil |-> TRUE],
     validations |-> EmptyBag,
     filters |-> EmptyBag,
     doneCalls |-> <<>>,
     crashed |-> FALSE,
     log |-> <<>>,
     effects |-> NoEffects]

\* The states of S and those one key press leads to from a state of S
KeyStep(S) ==
    S \cup {keypressEvent(w, input) :
               <<w, input>> \in UNION {{w} \X KeyInputsWithin(w.rl.line, MaxTyped) :
                                          w \in {v \in S : ~v.crashed}}}

\* The states up to k key presses lead to from a state of S
RECURSIVE AfterKeys(_, _)
AfterKeys(S, k) == IF k = 0 THEN S ELSE AfterKeys(KeyStep(S), k - 1)

\* The prompt is in the state w
Is(w) ==
    /\ opt = w.opt
    /\ engine = w.engine
    /\ answers = w.answers
    /\ answer = w.answer
    /\ finished = w.finished
    /\ shell = w.shell
    /\ state = w.state
    /\ originalSIGINTListeners = w.originalSIGINTListeners
    /\ rl = w.rl
    /\ subscribed = w.subscribed
    /\ validations = w.validations
    /\ filters = w.filters
    /\ doneCalls = w.doneCalls
    /\ crashed = w.crashed
    /\ log = w.log
    /\ effects = w.effects

EnterInit ==
    /\ fs = PromptListing
    /\ call = NoCall
    /\ \E e \in SortEngines :
          \E w \in {v \in AfterKeys({Constructed(e)}, MaxKeys) : ~v.crashed /\ ~v.finished} :
             Is(w)

\* The 'keypress' event of a press of return
EnterKeypress ==
    /\ ~crashed
    /\ Becomes(keypressEvent(This, [name |-> ENTER_KEY, shift |-> FALSE,
                                    line |-> rl.line]))

\* The 'line' event of a press of return; the validator answers true at once
EnterLine ==
    /\ ~crashed
    /\ lineSubscribed(This)
    /\ Submissions < MaxSubmissions
    /\ \E filterSync \in BOOLEAN : Becomes(lineEvent(This, JsTrue, filterSync))

\* A filter that answers later settles
EnterFilterSettles ==
    /\ ~crashed
    /\ \E value \in BagToSet(filters) : Becomes(filterSettles(This, value))

EnterNext ==
    \/ EnterKeypress
    \/ EnterLine
    \/ EnterFilterSettles

EnterSpec == EnterInit /\ [][EnterNext]_vars

\* ------------------------------------------------- resolve driven on its own
\* resolve(cwd, input) as setInputPath calls it, for the working directories
\* and the inputs below; the prompt stays as constructed.

ResolveChars == {SEP, "a", "x"}

\* The inputs: the strings of ResolveChars up to MaxInput characters
ResolveInputs == UNION {[1..n -> ResolveChars] : n \in 0..MaxInput}

\* The working directories: the root, /a and /a/b/
ResolveBases == {<<SEP>>, <<SEP, "a">>, <<SEP, "a", SEP, "b", SEP>>}

ResolveInit == Init

Resolve ==
    /\ \E cwd \in ResolveBases, input \in ResolveInputs :
          call' = [name |-> "resolve", cwd |-> cwd, input |-> input,
                   result |-> resolve(<<cwd, input>>)]
    /\ UNCHANGED <<fs, opt, engine, answers, answer, finished, shell, state,
                   originalSIGINTListeners, rl, subscribed, validations,
                   filters, doneCalls, crashed, log, effects>>

ResolveNext == Resolve

ResolveSpec == ResolveInit /\ [][ResolveNext]_vars

\* ------------------------------------------------------------------ claims

\* C1: while a validation started by a submit event has not settled, a
\* further submit event starts no second validator invocation, so at most
\* one validator invocation is in flight at any time.
C1_AtMostOneValidationInFlight == BagCardinality(validations) <= 1

\* C2: every validation that settles with a result other than true while
\* the prompt is not finished, in single and in multi mode and also after
\* earlier submissions succeeded, sets rl.line to the shell's formatted
\* input, renders an error that carries the validator's message, and leaves
\* the answer and the finished flag unchanged.
C2_FailedValidationShowsError ==
    [][(/\ ~finished
        /\ effects'.settled # <<>>
        /\ effects'.settled[1] # JsTrue)
       => /\ effects'.lineSet
          /\ rl'.line = getInputPath(shell, TRUE)
          /\ effects'.screen = <<[error |-> effects'.settled[1]]>>
          /\ answer' = answer
          /\ finished' = finished]_vars

\* C3: once the prompt is finished no later event (key press, line, SIGINT,
\* validator or filter result) changes the delivered answer, the shell or
\* the selection state, sets rl.line or renders.
C3_NothingAfterTermination ==
    [][finished
       => /\ answer' = answer
          /\ doneCalls' = doneCalls
          /\ shell' = shell
          /\ state' = state
          /\ ~effects'.lineSet
          /\ effects'.screen = <<>>]_vars

\* C4: in multi mode a SIGINT with no selected path finishes the prompt and
\* delivers exactly the filtered values of the submissions whose validation
\* passed before it, in the order they were submitted.
C4_CancelDeliversPassedSubmissions ==
    [][(/\ effects'.event = "SIGINT"
        /\ opt.multi
        /\ ~finished
        /\ ~hasSelectedPath(shell))
       => LET passed == SelectSeq(log, LAMBDA e : e.passed # 0)
          IN  /\ finished'
              /\ Len(doneCalls') = 1
              /\ Len(doneCalls'[1].items) = Len(passed)
              /\ \A i \in 1..Len(passed) :
                    doneCalls'[1].items[i] = filterFn(passed[i].value)]_vars

\* C5: in single mode what is delivered is filter(value) of the first
\* submission whose validation returned true.
C5_FirstValidSubmissionIsTheAnswer ==
    (~opt.multi /\ doneCalls # <<>>)
       => \E k \in Passed(log) :
             /\ log[k].passed = 1
             /\ doneCalls[1] = [str |-> filterFn(log[k].value)]

\* C6: a line event that arrives while the shell has a selected path is
\* ignored: the validator is not called, and the answer, the finished flag
\* and what has been delivered do not change.
C6_LineIgnoredWhileSelected ==
    [][(effects'.event = "line" /\ hasSelectedPath(shell))
       => /\ effects'.validate = 0
          /\ effects'.settled = <<>>
          /\ validations' = validations
          /\ filters' = filters
          /\ answer' = answer
          /\ finished' = finished
          /\ doneCalls' = doneCalls]_vars

\* A line event has arrived, on a prompt that is still listening, while a
\* path was selected (a line event never selects a path itself)
C6_Witness ==
    /\ effects.event = "line"
    /\ hasSelectedPath(shell)
    /\ ~finished

\* C7: after Enter is handled while the list is open and an entry is
\* selected, the input is the formatted selected entry, the list is closed
\* and no entry is selected.
C7_EnterCommitsSelection ==
    [][(/\ ~crashed
        /\ ~finished
        /\ state.selectionActive
        /\ hasSelectedPath(shell)
        /\ Becomes(keypressEvent(This, [name |-> ENTER_KEY, shift |-> FALSE,
                                        line |-> rl.line])))
       => /\ shell'.inputPath = format(shell, getSelectedPath(shell))
          /\ ~state'.selectionActive
          /\ shell'.selectedPotentialPathIndex = -1]_vars

\* C8: a SIGINT received by a prompt that is not finished while a path is
\* selected, in single and in multi mode, clears the selection and closes
\* the list without finishing; the input, the answer and what has been
\* delivered do not change.
C8_CancelClearsSelection ==
    [][(/\ effects'.event = "SIGINT"
        /\ ~finished
        /\ hasSelectedPath(shell))
       => /\ ~hasSelectedPath(shell')
          /\ ~state'.selectionActive
          /\ ~finished'
          /\ shell'.inputPath = shell.inputPath
          /\ answer' = answer
          /\ doneCalls' = doneCalls]_vars

\* A SIGINT has been handled by a prompt that is not finished and neither
\* finished it (multi mode, no selection) nor was passed on to the host
\* (single mode, no selection): a path was selected when it arrived
C8_Witness ==
    /\ effects.event = "SIGINT"
    /\ ~finished
    /\ effects.sigint = <<>>
    /\ ~hasSelectedPath(shell)
    /\ ~state.selectionActive

\* C9: in single mode a SIGINT received by a prompt that is not finished
\* with no selected path is passed to every SIGINT listener the host had
\* attached before the prompt was constructed, once each, and the prompt
\* neither finishes nor delivers nor changes its state.
C9_SingleCancelGoesToHost ==
    [][(/\ effects'.event = "SIGINT"
        /\ ~opt.multi
        /\ ~finished
        /\ ~hasSelectedPath(shell))
       => /\ effects'.sigint = HostSIGINTListeners
          /\ effects'.screen = <<>>
          /\ UNCHANGED <<answer, finished, shell, state, rl, doneCalls,
                         validations, filters, subscribed, log>>]_vars

\* The host's listeners have been called for a SIGINT in single mode
C9_Witness ==
    /\ effects.event = "SIGINT"
    /\ ~opt.multi
    /\ ~finished
    /\ ~hasSelectedPath(shell)
    /\ effects.sigint = HostSIGINTListeners

\* C10: on tab, after the refresh: a common potential path becomes the input
\* and the list is not open; otherwise, if the list was not open, it opens and
\* the selected index stays -1; otherwise the selection moves one step with
\* wraparound, forward without shift and backward with it.
C10_TabCompletesOpensOrAdvances ==
    [][\A shift \in BOOLEAN :
        (/\ ~crashed
         /\ ~finished
         /\ Becomes(keypressEvent(This, [name |-> TAB_KEY, shift |-> shift,
                                         line |-> rl.line])))
        => LET sh == refresh(shell, engine)
               n == Len(sh.potentialPaths.items)
               step == IF shift THEN -1 ELSE 1
           IN  IF hasCommonPotentialPath(sh)
               THEN /\ shell'.inputPath = format(sh, sh.commonPotentialPath)
                    /\ ~state'.selectionActive
               ELSE IF ~state.selectionActive
               THEN /\ state'.selectionActive
                    /\ shell'.selectedPotentialPathIndex = -1
               ELSE /\ state'.selectionActive
                    /\ shell'.selectedPotentialPathIndex =
                          IF n = 0 THEN -1
                          ELSE (sh.selectedPotentialPathIndex + step + n) % n]_vars

\* C11..C20 are stated over the shell driven on its own (ShellSpec), the
\* prompt under key presses (KeysSpec), resolve on its own (ResolveSpec) and
\* the prompt (Spec).

\* C12: for a list of n >= 1 candidates and a selected index in -1..n-1, a
\* call of selectNextPotentialPath in either direction leaves the index in
\* 0..n-1, one step further with wraparound (from -1 forwards: at 0), and
\* returns the candidate at that index.
C12_AdvanceStaysInRange ==
    [][(/\ call'.name = "selectNextPotentialPath"
        /\ shell.potentialPaths # Null
        /\ Len(getPotentialPaths(shell)) >= 1
        /\ shell.selectedPotentialPathIndex \in -1..(Len(getPotentialPaths(shell)) - 1))
       => LET n == Len(getPotentialPaths(shell))
              index == shell.selectedPotentialPathIndex
              step == IF call'.forward THEN 1 ELSE -1
          IN  /\ shell'.selectedPotentialPathIndex \in 0..(n - 1)
              /\ index >= 0 => shell'.selectedPotentialPathIndex = (index + step + n) % n
              /\ (index = -1 /\ call'.forward) => shell'.selectedPotentialPathIndex = 0
              /\ getSelectedPath(shell')
                    = getPotentialPaths(shell)[shell'.selectedPotentialPathIndex + 1]]_vars

\* k calls of selectNextPotentialPath(forward) in a row
RECURSIVE selectNextTimes(_, _, _)
selectNextTimes(sh, forward, k) ==
    IF k = 0 THEN sh
    ELSE selectNextTimes(selectNextPotentialPath(sh, forward), forward, k - 1)

\* C13: for a list of n >= 1 candidates and a selected index in 0..n-1, n
\* steps forward return the index to where it started, and a step forward
\* followed by a step backward, or backward followed by forward, restores it.
C13_SelectionRoundTrips ==
    (/\ shell.potentialPaths # Null
     /\ Len(getPotentialPaths(shell)) >= 1
     /\ shell.selectedPotentialPathIndex \in 0..(Len(getPotentialPaths(shell)) - 1))
    => /\ selectNextTimes(shell, TRUE, Len(getPotentialPaths(shell))).selectedPotentialPathIndex
             = shell.selectedPotentialPathIndex
       /\ selectNextPotentialPath(selectNextPotentialPath(shell, TRUE), FALSE).selectedPotentialPathIndex
             = shell.selectedPotentialPathIndex
       /\ selectNextPotentialPath(selectNextPotentialPath(shell, FALSE), TRUE).selectedPotentialPathIndex
             = shell.selectedPotentialPathIndex

\* The names of the candidates of the shell
CandidateNames == {getPotentialPaths(shell)[k].name : k \in 1..Len(getPotentialPaths(shell))}

\* p is a literal prefix of every candidate's name
IsCommonPrefix(p) == \A name \in CandidateNames : startsWithStr(name, p)

\* The longest literal prefix common to the candidates' names (one candidate
\* at least)
LongestCommonPrefix ==
    LET common == {p \in UNION {{substrTo(name, i) : i \in 0..Len(name)} : name \in CandidateNames} :
                      IsCommonPrefix(p)}
    IN  CHOOSE p \in common : \A q \in common : Len(q) <= Len(p)

\* C14 as stated: after a refresh with one candidate at least, the name of
\* the entry findCommonPotentialPath returned is a literal prefix of every
\* candidate's name, and no prefix one character longer is.
C14_CommonPrefixIsMaximalPrefix ==
    (shell.fresh /\ Len(getPotentialPaths(shell)) >= 1)
    => /\ IsCommonPrefix(shell.commonPotentialPath.name)
       /\ \A name \in CandidateNames :
             Len(name) > Len(shell.commonPotentialPath.name)
             => ~IsCommonPrefix(substrTo(name, Len(shell.commonPotentialPath.name) + 1))

\* C14 amended: after a refresh, the entry findCommonPotentialPath returned
\* is the resolved target itself when there is no candidate or when the
\* longest literal prefix common to the candidates' names is empty (its name
\* is then no prefix of the candidates' names); otherwise its name is that
\* longest common prefix.
C14_CommonPrefixOrTarget ==
    shell.fresh
    => IF Len(getPotentialPaths(shell)) = 0
       THEN shell.commonIsInput /\ shell.commonPotentialPath = shell.inputPathReference
       ELSE IF LongestCommonPrefix = <<>>
       THEN shell.commonIsInput /\ shell.commonPotentialPath = shell.inputPathReference
       ELSE shell.commonPotentialPath.name = LongestCommonPrefix

\* Two candidates whose names share a prefix that is not the target's name: a
\* new entry named by the prefix was returned
C14_Witness ==
    /\ shell.fresh
    /\ Len(getPotentialPaths(shell)) = 2
    /\ ~shell.commonIsInput
    /\ shell.commonPotentialPath.name = LongestCommonPrefix

\* C15: after a refresh, whatever the directory holds and in whatever order
\* it is listed, every directory of the candidate list comes before every
\* file, and within the directories and within the files the names are in
\* lexicographic order.
C15_DirectoriesFirstThenByName ==
    shell.fresh
    => \A i, j \in 1..Len(getPotentialPaths(shell)) :
          i < j
          => /\ getPotentialPaths(shell)[i].type = FILE
                   => getPotentialPaths(shell)[j].type = FILE
             /\ getPotentialPaths(shell)[i].type = getPotentialPaths(shell)[j].type
                   => compareStr(getPotentialPaths(shell)[i].name,
                                 getPotentialPaths(shell)[j].name) <= 0

\* C16: a call of setInputPath whose input, a string or a reference once
\* formatted, is the string the shell already holds changes nothing: the
\* candidate list stays fresh and the selection stays.
C16_SetInputPathIdempotent ==
    [][(call'.name = "setInputPath" /\ call'.input = shell.inputPath)
       => shell' = shell]_vars

\* setInputPath has been called with the current input on a shell with a
\* fresh list and a selected candidate, and both are still there
C16_Witness ==
    /\ call.name = "setInputPath"
    /\ call.input = shell.inputPath
    /\ shell.fresh
    /\ hasSelectedPath(shell)

\* C20: right after the construction the input is empty, the resolved target
\* is the working directory, and the candidate list of it is computed: the
\* shell is fresh and potentialPaths is a list.
C20_ConstructedFresh ==
    call.name = "constructor"
    => /\ shell.inputPath = <<>>
       /\ shell.inputPathReference = shell.cwd
       /\ shell.cwd.path = appendPathSeparator(opt.cwd)
       /\ shell.fresh
       /\ shell.potentialPaths # Null

\* C17 as stated: resolve of an input that starts with the separator, against
\* any working directory, is the input unchanged; and resolve of "x" against
\* "/a/b/" is "/a/b/x".
C17_ResolveAbsoluteUnchanged ==
    call.name = "resolve"
    => /\ startsWith(call.input, SEP) => call.result = call.input
       /\ (call.cwd = <<SEP, "a", SEP, "b", SEP>> /\ call.input = <<"x">>)
             => call.result = <<SEP, "a", SEP, "b", SEP, "x">>

\* C17 amended: resolve of an input that starts with the separator, against
\* any working directory, is the input unchanged, except that the input "//"
\* gives "/"; and resolve of "x" against "/a/b/" is "/a/b/x".
C17_ResolveAbsolute ==
    call.name = "resolve"
    => /\ startsWith(call.input, SEP)
             => call.result = IF call.input = <<SEP, SEP>> THEN <<SEP>> ELSE call.input
       /\ (call.cwd = <<SEP, "a", SEP, "b", SEP>> /\ call.input = <<"x">>)
             => call.result = <<SEP, "a", SEP, "b", SEP, "x">>

\* An absolute input with a name in it has been resolved against /a/b/
C17_Witness ==
    /\ call.name = "resolve"
    /\ call.cwd = <<SEP, "a", SEP, "b", SEP>>
    /\ call.input = <<SEP, "x", SEP>>
    /\ call.result = call.input

\* C18: in multi mode, every call of the validator receives, with the
\* submitted value, the answers this prompt has accumulated so far: the
\* filtered values of the earlier submissions that passed, in order.
C18_ValidatorGetsAccumulatedAnswers ==
    [][(effects'.event = "line" /\ effects'.validate = 1 /\ opt.multi)
       => effects'.validateArgs
             = <<<<nodeResolve(shell.inputPathReference.path), answer>>>>]_vars

\* C19: in multi mode the validator is called once for every path the user
\* submits, and once more in the step that finishes the prompt, before the
\* answer is delivered.
C19_ValidatorCalledAtFinish ==
    [][opt.multi
       => /\ (/\ effects'.event = "line"
              /\ ~crashed
              /\ ~finished
              /\ ~hasSelectedPath(shell))
             => effects'.validate = 1
          /\ (~finished /\ finished' /\ doneCalls' # doneCalls)
             => effects'.validate >= 1]_vars

\* The directory the input implies does not exist, or none of its children
\* matches the input: none has a name that starts with the name typed after
\* the last separator and, when only directories are asked for, is a directory
NoMatchingChildren(sh) ==
    \/ ~isDirectory(getDeepestDirectory(sh.inputPathReference))
    \/ \A k \in 1..Len(readdirSync(getDeepestDirectory(sh.inputPathReference))) :
          LET name == readdirSync(getDeepestDirectory(sh.inputPathReference))[k]
          IN  \/ /\ sh.inputPathReference.type # DIRECTORY
                 /\ ~startsWithStr(name, sh.inputPathReference.name)
              \/ /\ sh.directoryOnly
                 /\ ~isDirectory(join(<<getDeepestDirectory(sh.inputPathReference), name>>))

\* C11: when the directory the input implies does not exist or has no
\* matching children, a press of tab (with or without shift) refreshes to an
\* empty candidate list whose common path is the resolved target itself and
\* throws nothing; the list is open afterwards, the selected index is -1 and
\* the input is unchanged; and when the list was already open the press
\* changes nothing.
C11_TabOnNoCandidates ==
    [][\A shift \in BOOLEAN :
        (/\ ~crashed
         /\ ~finished
         /\ NoMatchingChildren(shell)
         /\ Becomes(keypressEvent(This, [name |-> TAB_KEY, shift |-> shift,
                                         line |-> rl.line])))
        => /\ ~crashed'
           /\ shell'.fresh
           /\ getPotentialPaths(shell') = <<>>
           /\ shell'.commonIsInput
           /\ shell'.commonPotentialPath = shell'.inputPathReference
           /\ state'.selectionActive
           /\ shell'.selectedPotentialPathIndex = -1
           /\ shell'.inputPath = shell.inputPath
           /\ (state.selectionActive /\ shell.fresh)
                 => (shell' = shell /\ state' = state)]_vars

\* After a press of tab on an input whose directory does not exist: the list
\* is open and empty
C11_Witness ==
    /\ effects.event = "keypress"
    /\ ~crashed
    /\ state.selectionActive
    /\ shell.fresh
    /\ getPotentialPaths(shell) = <<>>
    /\ shell.selectedPotentialPathIndex = -1
    /\ shell.inputPath = <<"b", SEP>>
    /\ ~isDirectory(getDeepestDirectory(shell.inputPathReference))

\* C21: in every state the shell reaches as the prompt drives it, the
\* selected index differs from -1 only if the candidate list is fresh and not
\* empty; and every step in which setInputPath changes the input leaves the
\* shell stale with the selected index at -1.
C21_SelectionOnlyOnFreshList ==
    [][/\ hasSelectedPath(shell')
             => /\ shell'.fresh
                /\ shell'.potentialPaths # Null
                /\ Len(getPotentialPaths(shell')) >= 1
       /\ shell'.inputPath # shell.inputPath
             => /\ ~shell'.fresh
                /\ shell'.selectedPotentialPathIndex = -1]_vars

\* A candidate is selected in the fresh list of an input the user has typed
C21_Witness ==
    /\ effects.event = "keypress"
    /\ ~crashed
    /\ hasSelectedPath(shell)
    /\ shell.fresh
    /\ shell.inputPath # <<>>
    /\ getSelectedPath(shell) # Undefined

\* C22: a directory is listed only in the step that handles a press of tab
\* (with or without shift), only when the shell was stale, and once: other
\* keys, return, line events, SIGINT, settled validators and filters, and the
\* renders list nothing, and a press of tab on a fresh shell lists nothing.
C22_ListedOnlyOnTabWhenStale ==
    [][/\ effects'.readdir \in {0, 1}
       /\ effects'.readdir = 1
             => /\ ~shell.fresh
                /\ effects'.event = "keypress"
                /\ \E shift \in BOOLEAN :
                      Becomes(keypressEvent(This, [name |-> TAB_KEY, shift |-> shift,
                                                   line |-> rl.line]))]_vars

\* A press of tab has listed the directory of the input and opened the list
C22_Witness ==
    /\ effects.event = "keypress"
    /\ effects.readdir = 1
    /\ shell.fresh
    /\ state.selectionActive

C24_SelectionImpliesListOpen ==
    hasSelectedPath(shell) => state.selectionActive

\* C25: this.done is called at most once in a run of the prompt, however the
\* lines, the SIGINTs and the validators and filters that settle interleave.
C25_DoneAtMostOnce == Len(doneCalls) <= 1

\* C26: in single mode with a validator that always accepts, from every
\* state the prompt can be in before it terminates, presses of return and
\* nothing else terminate the prompt: a press on a selected candidate closes
\* the list, and the 'line' event of a press on a closed list is submitted to
\* the validator, whose answer finishes the prompt once the filter has
\* answered.
C26_EnterEventuallyTerminates ==
    [][/\ (/\ effects'.event = "keypress"
           /\ ~finished
           /\ hasSelectedPath(shell))
          => ~state'.selectionActive
       /\ (/\ effects'.event = "line"
           /\ ~finished
           /\ ~state.selectionActive)
          => /\ effects'.validate = 1
             /\ finished' \/ filters' # EmptyBag]_vars

\* C27: the SIGINT listeners the host had are off the readline interface
\* from the construction until the prompt finishes, and once it has finished
\* each of them is on it exactly once, as before the construction.
C27_HostListenersRestoredOnce ==
    /\ ~finished => rl.sigint = <<>>
    /\ finished => rl.sigint = HostSIGINTListeners

====
